---- MODULE Spec2Model ----
(***************************************************************************)
(* A model of clearml_serving/serving/preprocess_service.py: the engine    *)
(* registry, the construction of a BasePreprocessRequest (the dynamic      *)
(* loading of the user's Preprocess class), the preprocess / process /     *)
(* postprocess stages, the nested send_request callback and the Triton     *)
(* gRPC adapter's tensor decoding.                                         *)
(*                                                                         *)
(* Python's None is the empty sequence and a present value x is <<x>>, so  *)
(* that "x is None" is x = None for every kind of x.                       *)
(***************************************************************************)
EXTENDS Integers, Sequences, FiniteSets, TLC

VARIABLES
    preprocessing_lookup,   \* BasePreprocessRequest.__preprocessing_lookup   (dict)
    preprocessing_modules,  \* BasePreprocessRequest.__preprocessing_modules  (set)
    registrations,          \* history: the <<engine_name, cls>> pairs registered, in order
    timeout_cls,            \* the class attribute BasePreprocessRequest._timeout
    server_config,          \* the class attribute BasePreprocessRequest._server_config (dict)
    environ,                \* os.environ.get('GUNICORN_SERVING_TIMEOUT'), None when unset
    dispatchers,            \* the objects whose __init__ was run, in order
    last                    \* the last stage / callback call and what it did

vars == <<preprocessing_lookup, preprocessing_modules, registrations,
          timeout_cls, server_config, environ, dispatchers, last>>

None == <<>>

Some(x) == <<x>>

\* ------------------------------------------------------------------ bounds

MaxRegistrations == 3

MaxDispatchers == 2

MaxLoads == 1

MaxOutputs == 2

\* ---------------------------------------------------------------- registry

EngineNames == {"triton", "sklearn", "custom"}

EngineClasses == {"TritonPreprocessRequest", "SKLearnPreprocessRequest",
                  "XGBoostPreprocessRequest", "LightGBMPreprocessRequest",
                  "CustomPreprocessRequest"}

RegisteredClasses == {"TritonPreprocessRequest", "SKLearnPreprocessRequest",
                      "CustomPreprocessRequest"}

ModuleLists == {<<>>, <<"grpc", "tritonclient">>}

Range(s) == {s[i] : i \in DOMAIN s}

\* validate_engine_type: engine in cls.__preprocessing_lookup
validate_engine_type(engine) == engine \in DOMAIN preprocessing_lookup

\* get_engine_cls: cls.__preprocessing_lookup.get(engine)
get_engine_cls(engine) ==
    IF engine \in DOMAIN preprocessing_lookup
    THEN Some(preprocessing_lookup[engine])
    ELSE None

\* a wrapper that keeps the class first registered under a name
wrapper_keep_first(lookup, engine_name, cls) ==
    IF engine_name \in DOMAIN lookup
    THEN lookup
    ELSE [e \in DOMAIN lookup \cup {engine_name} |->
            IF e = engine_name THEN cls ELSE lookup[e]]

\* wrapper(cls): cls.__preprocessing_lookup[engine_name] = cls
wrapper(lookup, engine_name, cls) ==
    [e \in DOMAIN lookup \cup {engine_name} |->
        IF e = engine_name THEN cls ELSE lookup[e]]

\* register_engine(engine_name, modules) used as a class decorator: the
\* modules are added when the decorator is built, the class when it is applied
register_engine(engine_name, modules, cls) ==
    /\ Len(registrations) < MaxRegistrations
    /\ preprocessing_modules' =
          IF modules # <<>>
          THEN preprocessing_modules \cup Range(modules)
          ELSE preprocessing_modules
    /\ preprocessing_lookup' = wrapper(preprocessing_lookup, engine_name, cls)
    /\ registrations' = Append(registrations, <<engine_name, cls>>)
    /\ UNCHANGED <<timeout_cls, server_config, environ, dispatchers, last>>

\* load_modules: import every declared module, failures are ignored; nothing
\* of the registry changes
load_modules ==
    /\ last' = [op |-> "load_modules", d |-> 0, arg |-> <<>>, world |-> <<>>,
                ret |-> None, raised |-> "", calls |-> <<>>]
    /\ UNCHANGED <<preprocessing_lookup, preprocessing_modules, registrations,
                   timeout_cls, server_config, environ, dispatchers>>

NoCall == [op |-> "", d |-> 0, arg |-> <<>>, world |-> <<>>, ret |-> None,
           raised |-> "", calls |-> <<>>]

Init ==
    /\ preprocessing_lookup = <<>>
    /\ preprocessing_modules = {}
    /\ registrations = <<>>
    /\ timeout_cls = None
    /\ server_config = <<>>
    /\ environ = None
    /\ dispatchers = <<>>
    /\ last = NoCall

NextRegistry ==
    \/ \E n \in EngineNames, m \in ModuleLists, c \in RegisteredClasses :
          register_engine(n, m, c)
    \/ load_modules

SpecRegistry == Init /\ [][NextRegistry]_vars

\* the last pair registered under a name, None when there is none
RECURSIVE LastRegistered(_, _)
LastRegistered(log, name) ==
    IF log = <<>> THEN None
    ELSE IF log[Len(log)][1] = name THEN Some(log[Len(log)][2])
    ELSE LastRegistered(SubSeq(log, 1, Len(log) - 1), name)

QueryNames == EngineNames \cup {"unknown"}

\* C10: after any registrations, get_engine_cls returns a class iff
\* validate_engine_type is true, the class is the one most recently registered
\* under the name, and a name never registered is unsupported and resolves to
\* None.
C10_RegistryConsistent ==
    \A n \in QueryNames :
        /\ (get_engine_cls(n) # None) <=> validate_engine_type(n)
        /\ get_engine_cls(n) = LastRegistered(registrations, n)
        /\ (\A i \in DOMAIN registrations : registrations[i][1] # n)
              => (~validate_engine_type(n) /\ get_engine_cls(n) = None)

\* a name registered twice with different classes, and a name never registered
C10_Witness ==
    /\ \E i, j \in DOMAIN registrations :
          /\ i < j
          /\ registrations[i][1] = registrations[j][1]
          /\ registrations[i][2] # registrations[j][2]
          /\ get_engine_cls(registrations[j][1]) = Some(registrations[j][2])
    /\ \E n \in EngineNames : ~validate_engine_type(n)

\* ------------------------------------------------------------ construction

DefaultServingTimeout == 600

\* int(float(os.environ.get('GUNICORN_SERVING_TIMEOUT', 600)) * 0.8)
ServingTimeout ==
    ((IF environ = None THEN DefaultServingTimeout ELSE environ[1]) * 8) \div 10

\* what an attribute read self._timeout gives: the instance attribute when
\* __init__ set one, the class attribute otherwise
self_timeout(self) ==
    IF self._timeout # None THEN self._timeout ELSE timeout_cls

ArtifactName == "py_code"

\* a user's Preprocess class: the methods it defines, what its load returns,
\* and whether its stage methods raise
PluginAttrs == {"preprocess", "postprocess", "process", "load"}

PluginHandle == "model_from_load"

Plugin(attrs, load_ret, stage_raises) ==
    [attrs |-> attrs, load_ret |-> load_ret, stage_raises |-> stage_raises]

\* the steps of a construction at which the outside world may raise
Faults == {"none", "get_local_copy", "sha256sum", "get_local_copy_2",
           "exec_module", "no_Preprocess", "Preprocess()",
           "get_local_model_file", "load"}

\* the object as line 29-33 leaves it
NewSelf(cls, model_endpoint) ==
    [cls |-> cls, model_endpoint |-> model_endpoint,
     _preprocess |-> None, _model |-> None,
     _timeout |-> IF timeout_cls = None THEN Some(ServingTimeout) ELSE None,
     events |-> <<>>, error |-> "", names_artifact |-> FALSE, cause |-> "",
     hashes |-> None, ext_loaded |-> FALSE]

Raise(self, error, names_artifact, cause) ==
    [self EXCEPT !.error = error, !.names_artifact = names_artifact,
                 !.cause = cause]

Event(self, e) == [self EXCEPT !.events = Append(@, e)]

\* line 75-76: the custom model load callback
load_step(self, plugin, w) ==
    IF "load" \in plugin.attrs
    THEN IF w.fault = "get_local_model_file"
         THEN Raise(Event(self, "get_local_model_file"), "Exception", FALSE,
                    "get_local_model_file")
         ELSE IF w.fault = "load"
         THEN Raise(Event(Event(self, "get_local_model_file"), "load"),
                    "Exception", FALSE, "load")
         ELSE [Event(Event(self, "get_local_model_file"), "load")
                  EXCEPT !._model = plugin.load_ret]
    ELSE self

\* line 65-73: import the file, patch send_request, create the instance
import_step(self, plugin, w) ==
    IF w.fault = "exec_module"
    THEN Raise(Event(self, "exec_module"), "Exception", FALSE, "exec_module")
    ELSE IF w.fault = "no_Preprocess"
    THEN Raise(Event(self, "exec_module"), "Exception", FALSE, "no_Preprocess")
    ELSE IF w.fault = "Preprocess()"
    THEN Raise(Event(Event(self, "exec_module"), "Preprocess()"),
               "Exception", FALSE, "Preprocess()")
    ELSE load_step([Event(Event(self, "exec_module"), "Preprocess()")
                       EXCEPT !._preprocess = Some(plugin)], plugin, w)

\* a hash check that re-downloads when the hashes are equal
fetch_forced_when(file_hash, expected) == file_hash = expected

\* line 52: file_hash != task.artifacts[...].hash
fetch_forced(file_hash, expected) == file_hash # expected

\* _instantiate_custom_preprocess_cls, line 47-76; an exception leaves it with
\* error set
instantiate_custom_preprocess_cls(self, task, w) ==
    LET artifact == task[1].artifacts[self.model_endpoint.preprocess_artifact]
        s1 == Event(self, "get_local_copy")
        s2 == [Event(s1, "sha256sum") EXCEPT
                  !.hashes = Some(<<w.local_hash, artifact.hash>>)]
        forced == fetch_forced(w.local_hash, artifact.hash)
        s3 == Event(s2, IF forced THEN "get_local_copy(extract_archive,force_download)"
                        ELSE "get_local_copy(extract_archive)")
    IN  IF w.fault = "get_local_copy"
        THEN Raise(s1, "Exception", FALSE, "get_local_copy")
        ELSE IF w.fault = "sha256sum"
        THEN Raise(Event(s1, "sha256sum"), "Exception", FALSE, "sha256sum")
        ELSE IF w.fault = "get_local_copy_2"
        THEN Raise(s3, "Exception", FALSE, "get_local_copy_2")
        ELSE import_step(s3, artifact.code, w)

\* the exception type of the raise at line 38-39: formatting the message reads
\* task.id, which is an AttributeError when task is None
not_found_error(task) == IF task = None THEN "AttributeError" ELSE "ValueError"

\* line 43-45: except Exception as ex: raise ValueError(... artifact ..., ex)
wrap_error(self) ==
    IF self.error # "" THEN Raise(self, "ValueError", TRUE, self.cause) ELSE self

\* BasePreprocessRequest.__init__, line 20-45
base_init(cls, model_endpoint, task, w) ==
    LET self == NewSelf(cls, model_endpoint)
    IN  IF model_endpoint.preprocess_artifact # ""
        THEN IF task = None
                \/ model_endpoint.preprocess_artifact \notin DOMAIN task[1].artifacts
             THEN Raise(self, not_found_error(task),
                        not_found_error(task) = "ValueError", "not found")
             ELSE wrap_error(instantiate_custom_preprocess_cls(self, task, w))
        ELSE self

ScoringClasses == {"SKLearnPreprocessRequest", "XGBoostPreprocessRequest",
                   "LightGBMPreprocessRequest"}

\* the native deserialization of each scoring library
NativeLoad(cls) ==
    CASE cls = "SKLearnPreprocessRequest" -> "joblib.load"
      [] cls = "XGBoostPreprocessRequest" -> "xgboost.Booster.load_model"
      [] cls = "LightGBMPreprocessRequest" -> "lightgbm.Booster"

\* a scoring adapter that always loads natively
native_load_needed_always(self) == TRUE

\* line 310, 328, 347: if self._model is None
native_load_needed(self) == self._model = None

\* the subclasses' __init__: super().__init__, then the engine's own loading
subclass_init(cls, model_endpoint, task, w) ==
    LET self == base_init(cls, model_endpoint, task, w)
    IN  IF self.error # "" THEN self
        ELSE IF cls = "TritonPreprocessRequest"
        THEN IF w.native_fault
             THEN Raise(Event(self, "import grpc"), "ImportError", FALSE, "import")
             ELSE [Event(self, "import grpc") EXCEPT !.ext_loaded = TRUE]
        ELSE IF cls \in ScoringClasses
        THEN IF native_load_needed(self)
             THEN IF w.native_fault
                  THEN Raise(Event(self, NativeLoad(cls)), "Exception", FALSE,
                             "native load")
                  ELSE [Event(self, NativeLoad(cls)) EXCEPT
                           !._model = Some(NativeLoad(cls))]
             ELSE self
        ELSE self

\* SomeAdapter(model_endpoint, task): the object is kept with what its
\* __init__ did; with error set, __init__ raised and no caller holds it
Construct(cls, model_endpoint, task, w) ==
    /\ dispatchers' = Append(dispatchers, subclass_init(cls, model_endpoint, task, w))
    /\ UNCHANGED <<preprocessing_lookup, preprocessing_modules, registrations,
                   timeout_cls, server_config, environ, last>>

Constructed(i) == i \in DOMAIN dispatchers /\ dispatchers[i].error = ""

Count(s, e) == Cardinality({i \in DOMAIN s : s[i] = e})

\* ------------------------------------------------------- the loading inputs

Endpoint(artifact, input_type, output_type) ==
    [preprocess_artifact |-> artifact, input_type |-> input_type,
     output_type |-> output_type]

Task(names, plugin) ==
    Some([id |-> "task1",
          artifacts |-> [n \in names |-> [hash |-> "h1", code |-> plugin]]])

World(fault, local_hash, native_fault) ==
    [fault |-> fault, local_hash |-> local_hash, native_fault |-> native_fault]

LoadPlugins ==
    {Plugin({}, None, FALSE),
     Plugin({"load"}, Some(PluginHandle), FALSE),
     Plugin({"load", "process"}, None, FALSE)}

LoadTasks ==
    {None, Task({}, Plugin({}, None, FALSE))}
       \cup {Task({ArtifactName}, p) : p \in LoadPlugins}

LoadWorlds ==
    {World(f, h, n) : f \in Faults, h \in {"h1", "h2"}, n \in BOOLEAN}

\* ------------------------------------------------------------------ stages

\* what a call gives back: the value returned (None or <<value>>), the
\* exception raised ("" when none), the outbound calls it made, and the object
\* as the call leaves it
Returned(self, value) ==
    [self |-> self, ret |-> value, raised |-> "", calls |-> <<>>]

Raised(self, error, calls) ==
    [self |-> self, ret |-> None, raised |-> error, calls |-> calls]

\* self._preprocess.<method>(data, collect_custom_statistics_fn): the user's
\* code is opaque, its result is the call itself
plugin_call(self, method, data, fn) ==
    IF self._preprocess[1].stage_raises
    THEN Raised(self, "PluginError", <<>>)
    ELSE Returned(self, Some(<<method, fn>> \o data))

\* hasattr(self._preprocess, name)
hasattr(self, name) == name \in self._preprocess[1].attrs

\* BasePreprocessRequest.preprocess, line 94-96
preprocess(self, request, fn) ==
    IF self._preprocess # None /\ hasattr(self, "preprocess")
    THEN plugin_call(self, "preprocess", request, fn)
    ELSE Returned(self, Some(request))

\* a postprocess that tests for the preprocess method
postprocess_wrong_attr(self, data, fn) ==
    IF self._preprocess # None /\ hasattr(self, "preprocess")
    THEN plugin_call(self, "postprocess", data, fn)
    ELSE Returned(self, Some(data))

\* BasePreprocessRequest.postprocess, line 112-114
postprocess(self, data, fn) ==
    IF self._preprocess # None /\ hasattr(self, "postprocess")
    THEN plugin_call(self, "postprocess", data, fn)
    ELSE Returned(self, Some(data))

\* a predict that reloads the model natively before scoring
predict_reloading(self, data) ==
    Returned([self EXCEPT !._model = Some(NativeLoad(self.cls)),
                          !.events = Append(@, NativeLoad(self.cls))],
             Some(<<"predict", NativeLoad(self.cls)>> \o data))

\* self._model.predict(data), line 320, 339, 357
predict(self, data) == Returned(self, Some(<<"predict", self._model[1]>> \o data))

\* the scoring adapters' process
scoring_process(self, data, fn) == predict(self, data)

\* CustomPreprocessRequest.process, line 371-373
custom_process(self, data, fn) ==
    IF self._preprocess # None /\ hasattr(self, "process")
    THEN plugin_call(self, "process", data, fn)
    ELSE Returned(self, None)

\* a call on dispatcher d: the object is left as the call leaves it, and the
\* call is recorded with its arguments and with what the outside world answered
Call(op, d, arg, world, r) ==
    /\ dispatchers' = [dispatchers EXCEPT ![d] = r.self]
    /\ last' = [op |-> op, d |-> d, arg |-> arg, world |-> world, ret |-> r.ret,
                raised |-> r.raised, calls |-> r.calls]
    /\ UNCHANGED <<preprocessing_lookup, preprocessing_modules, registrations,
                   timeout_cls, server_config, environ>>

Preprocess(d, request, fn) ==
    /\ Constructed(d)
    /\ Call("preprocess", d, <<fn>> \o request, <<>>, preprocess(dispatchers[d], request, fn))

Postprocess(d, data, fn) ==
    /\ Constructed(d)
    /\ Call("postprocess", d, <<fn>> \o data, <<>>, postprocess(dispatchers[d], data, fn))

ScoringProcess(d, data, fn) ==
    /\ Constructed(d)
    /\ dispatchers[d].cls \in ScoringClasses
    /\ Call("process", d, <<fn>> \o data, <<>>, scoring_process(dispatchers[d], data, fn))

CustomProcess(d, data, fn) ==
    /\ Constructed(d)
    /\ dispatchers[d].cls = "CustomPreprocessRequest"
    /\ Call("process", d, <<fn>> \o data, <<>>, custom_process(dispatchers[d], data, fn))

Requests == {<<"x0">>, <<"x0", "x1">>}

StatsFns == {"None", "collect_fn"}

\* ------------------------------------------------------------ send_request

DefaultServingBaseUrl == "http://127.0.0.1:8080/serve"

\* d.get(key) or default
GetOr(d, key, default) ==
    IF key \in DOMAIN d /\ d[key] # "" THEN d[key] ELSE default

\* set_server_config, line 136-137
set_server_config(config) ==
    /\ server_config' = config
    /\ UNCHANGED <<preprocessing_lookup, preprocessing_modules, registrations,
                   timeout_cls, environ, dispatchers, last>>

HttpOutcomes == {"2xx", "2xx, body is not JSON", "non-2xx", "ConnectionError",
                 "Timeout"}

\* the timeout send_request passes to requests.post: the class attribute
post_timeout(self) == timeout_cls

\* _preprocess_send_request, line 177-185, called by the plugin of self; the
\* url is kept as its parts: the base, the endpoint and the version if given
preprocess_send_request(self, endpoint, version, data, http) ==
    LET url == <<GetOr(server_config, "base_serving_url", DefaultServingBaseUrl),
                 endpoint>> \o (IF version # "" THEN <<version>> ELSE <<>>)
        post == [kind |-> "POST", target |-> url, timeout |-> post_timeout(self),
                 payload |-> data]
    IN  IF http \in {"ConnectionError", "Timeout"}
        THEN Raised(self, http, <<post>>)
        ELSE IF http = "non-2xx"
        THEN [Returned(self, None) EXCEPT !.calls = <<post>>]
        ELSE IF http = "2xx, body is not JSON"
        THEN Raised(self, "JSONDecodeError", <<post>>)
        ELSE [Returned(self, Some(<<"json", endpoint>>)) EXCEPT !.calls = <<post>>]

SendRequest(d, endpoint, version, data, http) ==
    /\ Constructed(d)
    /\ dispatchers[d]._preprocess # None
    /\ Call("send_request", d, <<endpoint, version>> \o data, <<http>>,
            preprocess_send_request(dispatchers[d], endpoint, version, data, http))

\* ------------------------------------------------------------------ triton

DefaultGrpcAddress == "127.0.0.1:8001"

\* np.dtype(input_type).type: the numpy scalar class of a configured type
DtypeType(t) ==
    CASE t = "uint8" -> "numpy.uint8"
      [] t = "int8" -> "numpy.int8"
      [] t = "int64" -> "numpy.int64"
      [] t = "uint64" -> "numpy.uint64"
      [] t = "int" -> "numpy.int64"
      [] t = "bool" -> "numpy.bool_"
      [] t = "float32" -> "numpy.float32"
      [] t = "float64" -> "numpy.float64"
      [] t = "int32" -> "numpy.int32"
      [] t = "float16" -> "numpy.float16"

\* TritonPreprocessRequest._content_lookup, line 190-200; np.int and np.bool
\* are Python's int and bool, np.uint is kept under its own name
ContentLookup ==
    [k \in {"numpy.uint8", "numpy.int8", "numpy.int64", "numpy.uint64",
            "builtins.int", "numpy.uint", "builtins.bool", "numpy.float32",
            "numpy.float64"} |->
        CASE k = "numpy.uint8" -> "uint_contents"
          [] k = "numpy.int8" -> "int_contents"
          [] k = "numpy.int64" -> "int64_contents"
          [] k = "numpy.uint64" -> "uint64_contents"
          [] k = "builtins.int" -> "int_contents"
          [] k = "numpy.uint" -> "uint_contents"
          [] k = "builtins.bool" -> "bool_contents"
          [] k = "numpy.float32" -> "fp32_contents"
          [] k = "numpy.float64" -> "fp64_contents"]

\* a lookup that falls back to fp32_contents for a type it does not know
content_lookup_get_default(input_dtype) ==
    IF input_dtype \in DOMAIN ContentLookup
    THEN Some(ContentLookup[input_dtype]) ELSE Some("fp32_contents")

\* self._content_lookup.get(input_dtype), line 270
content_lookup_get(input_dtype) ==
    IF input_dtype \in DOMAIN ContentLookup
    THEN Some(ContentLookup[input_dtype]) ELSE None

\* the bytes of one element of an output type
ItemSize(output_type) ==
    CASE output_type = "uint8" -> 1
      [] output_type = "uint16" -> 2

RECURSIVE LittleEndian(_)
LittleEndian(bytes) ==
    IF bytes = <<>> THEN 0 ELSE bytes[1] + 256 * LittleEndian(Tail(bytes))

\* np.frombuffer(buffer, dtype): the elements of a raw buffer (its length a
\* multiple of the element size)
frombuffer(buffer, output_type) ==
    LET n == ItemSize(output_type)
    IN  [k \in 1..(Len(buffer) \div n) |->
            LittleEndian(SubSeq(buffer, (k - 1) * n + 1, k * n))]

RECURSIVE Product(_)
Product(shape) == IF shape = <<>> THEN 1 ELSE shape[1] * Product(Tail(shape))

\* np.resize(a, shape): a repeated or cut to the size of shape, zeros when a is
\* empty
np_resize(a, shape) ==
    [shape |-> shape,
     data |-> [i \in 1..Product(shape) |->
                 IF Len(a) = 0 THEN 0 ELSE a[((i - 1) % Len(a)) + 1]]]

\* which raw buffer the loop reads for the output at position index (1-based)
raw_index_first(index) == 1

\* line 297: response.raw_output_contents[index]
raw_index(index) == index

\* the loop of line 290-299 from position index on: the decoded arrays, or the
\* exception the loop raised
RECURSIVE decode_outputs(_, _, _)
decode_outputs(response, output_type, index) ==
    IF index > Len(response.outputs)
    THEN [error |-> "", results |-> <<>>]
    ELSE IF raw_index(index) > Len(response.raw_output_contents)
    THEN [error |-> "IndexError", results |-> <<>>]
    ELSE IF Len(response.raw_output_contents[raw_index(index)])
               % ItemSize(output_type) # 0
    THEN [error |-> "ValueError: buffer size", results |-> <<>>]
    ELSE LET rest == decode_outputs(response, output_type, index + 1)
             shape == response.outputs[index]
             array == np_resize(
                         frombuffer(response.raw_output_contents[raw_index(index)],
                                    output_type), shape)
         IN  IF rest.error # "" THEN rest
             ELSE [error |-> "", results |-> <<array>> \o rest.results]

\* a process that returns the list of arrays also when there is one output
single_output_never(n) == FALSE

\* line 302: index == 1
single_output(n) == n = 1

\* TritonPreprocessRequest.process, line 225-302
triton_process(self, data, fn, net) ==
    IF self._preprocess # None /\ hasattr(self, "process")
    THEN plugin_call(self, "process", data, fn)
    ELSE
    LET address == GetOr(server_config, "triton_grpc_server", DefaultGrpcAddress)
        input_dtype == DtypeType(self.model_endpoint.input_type)
        input_func == content_lookup_get(input_dtype)
    IN  IF address = ""
        THEN Raised(self, "ValueError: External Triton gRPC server is not configured", <<>>)
        ELSE IF net.fault = "insecure_channel"
        THEN Raised(self, "ValueError: External Triton gRPC server misconfigured", <<>>)
        ELSE IF net.fault = "np.array"
        THEN Raised(self, "Exception: np.array", <<>>)
        ELSE IF input_func = None
        THEN Raised(self, "ValueError: Input type nt supported", <<>>)
        ELSE
        LET infer == [kind |-> "ModelInfer", target |-> <<address>>,
                      timeout |-> self_timeout(self),
                      payload |-> <<input_func[1]>> \o data]
            decoded == decode_outputs(net.response,
                                      self.model_endpoint.output_type, 1)
        IN  IF net.fault = "ModelInfer"
            THEN Raised(self, "RpcError", <<infer>>)
            ELSE IF decoded.error # ""
            THEN Raised(self, decoded.error, <<infer>>)
            ELSE [Returned(self,
                     IF single_output(Len(decoded.results))
                     THEN Some(decoded.results[1])
                     ELSE Some(decoded.results))
                  EXCEPT !.calls = <<infer>>]

TritonProcess(d, data, fn, net) ==
    /\ Constructed(d)
    /\ dispatchers[d].cls = "TritonPreprocessRequest"
    /\ Call("process", d, <<fn>> \o data, <<net>>,
            triton_process(dispatchers[d], data, fn, net))

Net(fault, outputs, raw) ==
    [fault |-> fault,
     response |-> [outputs |-> outputs, raw_output_contents |-> raw]]

\* ----------------------------------------------------- loading: the checks

NextLoad ==
    \/ /\ Len(dispatchers) < MaxLoads
       /\ \E cls \in EngineClasses, a \in {"", ArtifactName}, t \in LoadTasks,
             w \in LoadWorlds :
             Construct(cls, Endpoint(a, "float32", "uint8"), t, w)
    \/ \E d \in DOMAIN dispatchers : ScoringProcess(d, <<"x0">>, "None")

SpecLoad == Init /\ [][NextLoad]_vars

ForcedFetch == "get_local_copy(extract_archive,force_download)"

\* the position of the first e in s, 0 when there is none
FirstIndex(s, e) ==
    IF \E i \in DOMAIN s : s[i] = e
    THEN CHOOSE i \in DOMAIN s : s[i] = e /\ \A j \in 1..(i - 1) : s[j] # e
    ELSE 0

\* C2: once the hash of the local copy was compared with the artifact's hash,
\* equal hashes mean no forced download was asked for, and different hashes
\* mean exactly one was, before the plugin code was loaded.
C2_RefetchIffHashDiffers ==
    \A i \in DOMAIN dispatchers :
        LET d == dispatchers[i]
        IN  d.hashes # None =>
              IF d.hashes[1][1] = d.hashes[1][2]
              THEN Count(d.events, ForcedFetch) = 0
              ELSE /\ Count(d.events, ForcedFetch) = 1
                   /\ FirstIndex(d.events, "exec_module") # 0
                         => FirstIndex(d.events, ForcedFetch)
                               < FirstIndex(d.events, "exec_module")

\* both cases: a load whose hashes agreed and a load whose hashes differed,
\* each followed by the loading of the code
C2_Witness ==
    \E i \in DOMAIN dispatchers :
        LET d == dispatchers[i]
        IN  /\ d.error = ""
            /\ d.hashes # None
            /\ d.hashes[1][1] # d.hashes[1][2]
            /\ Count(d.events, ForcedFetch) = 1
            /\ d._preprocess # None

\* an error of BasePreprocessRequest.__init__ itself, not of the engine's own
\* loading that follows it
BaseInitDone(d) == d.error = "" \/ d.cause \in {"import", "native load"}

\* C3: constructing a dispatcher for an endpoint with a preprocessing artifact
\* either succeeds or raises a ValueError that names the artifact, whatever
\* goes wrong (no task, artifact not on the task, an exception while loading).
C3_OnlyValueErrorEscapes ==
    \A i \in DOMAIN dispatchers :
        LET d == dispatchers[i]
        IN  (d.model_endpoint.preprocess_artifact # "" /\ ~BaseInitDone(d))
               => (d.error = "ValueError" /\ d.names_artifact)

\* the plugin's load step gave a model handle
PluginHandleProduced(d) ==
    /\ d._preprocess # None
    /\ "load" \in d._preprocess[1].attrs
    /\ d._preprocess[1].load_ret # None

\* C7: a scoring adapter (sklearn, xgboost, lightgbm) whose base construction
\* finished loads the model natively iff the plugin's load step gave no model
\* handle; when it gave one, the native load is skipped, the handle is kept and
\* process calls predict on it.
C7_NativeLoadIffNoPluginModel ==
    /\ \A i \in DOMAIN dispatchers :
          LET d == dispatchers[i]
          IN  (d.cls \in ScoringClasses /\ BaseInitDone(d)) =>
                 /\ Count(d.events, NativeLoad(d.cls))
                       = (IF PluginHandleProduced(d) THEN 0 ELSE 1)
                 /\ (PluginHandleProduced(d) /\ d.error = "")
                       => d._model = d._preprocess[1].load_ret
                 /\ (~PluginHandleProduced(d) /\ d.error = "")
                       => d._model = Some(NativeLoad(d.cls))
    /\ (last.op = "process" /\ PluginHandleProduced(dispatchers[last.d]))
          => last.ret = Some(<<"predict", PluginHandle>> \o Tail(last.arg))

\* a scoring adapter whose plugin gave the handle, and a process call on it
C7_Witness ==
    /\ last.op = "process"
    /\ dispatchers[last.d].cls \in ScoringClasses
    /\ PluginHandleProduced(dispatchers[last.d])
    /\ Count(dispatchers[last.d].events, "load") = 1
    /\ last.ret = Some(<<"predict", PluginHandle, "x0">>)

\* ---------------------------------------------------- pipeline: the checks

PipelinePlugins ==
    {Plugin(a, IF "load" \in a THEN Some(PluginHandle) ELSE None, FALSE) :
        a \in SUBSET PluginAttrs}
    \cup {Plugin(PluginAttrs, Some(PluginHandle), TRUE),
          Plugin({"preprocess", "postprocess", "process"}, None, TRUE)}

PipelineClasses == {"SKLearnPreprocessRequest", "CustomPreprocessRequest",
                    "TritonPreprocessRequest"}

OneOutput == Net("none", << <<2>> >>, << <<1, 0>> >>)

NextPipeline ==
    \/ /\ Len(dispatchers) < MaxLoads
       /\ \E cls \in PipelineClasses, p \in PipelinePlugins, a \in {"", ArtifactName} :
             Construct(cls, Endpoint(a, "float32", "uint8"),
                       Task({ArtifactName}, p), World("none", "h1", FALSE))
    \/ \E d \in DOMAIN dispatchers, r \in Requests, fn \in StatsFns :
          Preprocess(d, r, fn)
    \/ \E d \in DOMAIN dispatchers, r \in Requests, fn \in StatsFns :
          Postprocess(d, r, fn)
    \/ \E d \in DOMAIN dispatchers : ScoringProcess(d, <<"x0">>, "None")
    \/ \E d \in DOMAIN dispatchers : CustomProcess(d, <<"x0">>, "None")
    \/ \E d \in DOMAIN dispatchers, f \in {"none", "ModelInfer"} :
          TritonProcess(d, <<1, 2>>, "None", [OneOutput EXCEPT !.fault = f])

SpecPipeline == Init /\ [][NextPipeline]_vars

\* C1: the plugin is instantiated and its load is called at most once, in the
\* construction, and no preprocess / process / postprocess call, raising or
\* not, changes any dispatcher: its plugin instance, its model handle and the
\* record of its loading stay what the construction left.
C1_LoadedOnceThenFixed ==
    /\ [](\A i \in DOMAIN dispatchers :
             /\ Count(dispatchers[i].events, "Preprocess()") <= 1
             /\ Count(dispatchers[i].events, "load") <= 1)
    /\ [][\A i \in DOMAIN dispatchers : dispatchers'[i] = dispatchers[i]]_vars

\* a stage of a loaded plugin raised, on a dispatcher whose plugin gave the model
C1_Witness ==
    /\ last.op \in {"preprocess", "process", "postprocess"}
    /\ last.raised = "PluginError"
    /\ dispatchers[last.d]._preprocess # None
    /\ dispatchers[last.d]._model = Some(PluginHandle)
    /\ Count(dispatchers[last.d].events, "load") = 1

\* what a stage must return: the input when the plugin is absent or lacks the
\* method, the plugin's own result otherwise
StageDefaultsToIdentity(stage) ==
    last.op = stage =>
        LET d == dispatchers[last.d]
            fn == Head(last.arg)
            input == Tail(last.arg)
        IN  IF d._preprocess = None \/ stage \notin d._preprocess[1].attrs
            THEN last.raised = "" /\ last.ret = Some(input)
            ELSE IF d._preprocess[1].stage_raises
            THEN last.raised = "PluginError"
            ELSE last.raised = "" /\ last.ret = Some(<<stage, fn>> \o input)

\* C6: preprocess and postprocess each return their input unchanged when no
\* plugin is loaded or the plugin lacks that method, and the plugin's result
\* for that method (called with the same input and statistics function) when
\* it has it, whatever the other method.
C6_StagesDefaultToIdentity ==
    StageDefaultsToIdentity("preprocess") /\ StageDefaultsToIdentity("postprocess")

\* a plugin with preprocess and without postprocess: postprocess is the identity
C6_Witness ==
    /\ last.op = "postprocess"
    /\ dispatchers[last.d]._preprocess # None
    /\ dispatchers[last.d]._preprocess[1].attrs = {"preprocess"}
    /\ last.ret = Some(<<"x0", "x1">>)

\* ----------------------------------------------------- timeout: the checks

InitTimeout ==
    /\ preprocessing_lookup = <<>>
    /\ preprocessing_modules = {}
    /\ registrations = <<>>
    /\ timeout_cls = None
    /\ server_config = <<>>
    /\ environ \in {None, Some(10), Some(1000)}
    /\ dispatchers = <<>>
    /\ last = NoCall

ServerConfigs ==
    {<<>>, [base_serving_url |-> "http://gateway/serve"],
     [triton_grpc_server |-> "triton:8001"]}

NextTimeout ==
    \/ /\ Len(dispatchers) < MaxDispatchers
       /\ \E cls \in {"TritonPreprocessRequest", "CustomPreprocessRequest"},
             a \in {"", ArtifactName} :
             Construct(cls, Endpoint(a, "float32", "uint8"),
                       Task({ArtifactName}, Plugin({"preprocess"}, None, FALSE)),
                       World("none", "h1", FALSE))
    \/ \E c \in ServerConfigs : set_server_config(c)
    \/ \E d \in DOMAIN dispatchers, v \in {"", "1"}, h \in HttpOutcomes :
          SendRequest(d, "other_endpoint", v, <<"x0">>, h)
    \/ \E d \in DOMAIN dispatchers, f \in {"none", "ModelInfer"} :
          TritonProcess(d, <<1, 2>>, "None", [OneOutput EXCEPT !.fault = f])

SpecTimeout == InitTimeout /\ [][NextTimeout]_vars

\* C4: every outbound call, the plugin's send_request as well as the Triton
\* ModelInfer, is issued with the timeout derived at construction, 80% of the
\* serving timeout.
C4_UniformTimeout ==
    \A k \in DOMAIN last.calls :
        last.calls[k].kind \in {"POST", "ModelInfer"}
           => last.calls[k].timeout = Some(ServingTimeout)

\* C5: send_request never raises: it returns None for every failure of the
\* POST, network errors and non-2xx responses alike, and the decoded JSON only
\* on success.
C5_SendRequestNeverRaises ==
    last.op = "send_request" =>
        /\ last.world[1] \in {"non-2xx", "ConnectionError", "Timeout"}
              => (last.raised = "" /\ last.ret = None)
        /\ last.ret # None => last.world[1] = "2xx"

\* ------------------------------------------------------ triton: the checks

Shapes == {<<2>>, <<1, 2>>}

Buffers == {<<1>>, <<0, 1>>, <<1, 0>>}

RECURSIVE SeqsOf(_, _)
SeqsOf(S, n) ==
    IF n = 0 THEN {<<>>}
    ELSE {<<>>} \cup {<<x>> \o t : x \in S, t \in SeqsOf(S, n - 1)}

\* the responses of the server: up to MaxOutputs outputs, each with a shape,
\* and a raw buffer for each, or for all but the last
Responses ==
    {Net("none", o, r) :
        o \in SeqsOf(Shapes, MaxOutputs), r \in SeqsOf(Buffers, MaxOutputs)}

TritonNets ==
    {n \in Responses :
        Len(n.response.raw_output_contents) \in
            {Len(n.response.outputs), Len(n.response.outputs) - 1}}
    \cup {Net(f, <<>>, <<>>) : f \in {"insecure_channel", "np.array", "ModelInfer"}}

TritonPlugins ==
    {Plugin({"preprocess"}, None, FALSE), Plugin({"process"}, None, FALSE)}

NextTriton ==
    \/ /\ dispatchers = <<>>
       /\ \E t \in {"float32", "int32", "bool"}, o \in {"uint8", "uint16"},
             a \in {"", ArtifactName}, p \in TritonPlugins :
             Construct("TritonPreprocessRequest", Endpoint(a, t, o),
                       Task({ArtifactName}, p), World("none", "h1", FALSE))
    \/ \E d \in DOMAIN dispatchers, n \in TritonNets :
          TritonProcess(d, <<1, 2>>, "None", n)

SpecTriton == Init /\ [][NextTriton]_vars

\* the array the i-th output of a response decodes to
ExpectedArray(response, output_type, i) ==
    np_resize(frombuffer(response.raw_output_contents[i], output_type),
              response.outputs[i])

\* the last call was a Triton process that got a response and returned
TritonReturned ==
    /\ last.op = "process"
    /\ dispatchers[last.d].cls = "TritonPreprocessRequest"
    /\ last.calls # <<>>
    /\ last.raised = ""

\* C8: a Triton process that returns gives the bare array when the response
\* has exactly one output, and otherwise the sequence of the arrays, one per
\* output of the response in the response's order, the i-th decoded from the
\* i-th raw buffer and shaped as the i-th output's shape.
C8_OutputsInResponseOrder ==
    TritonReturned =>
        LET response == last.world[1].response
            output_type == dispatchers[last.d].model_endpoint.output_type
            n == Len(response.outputs)
        IN  /\ Len(response.raw_output_contents) >= n
            /\ IF n = 1
               THEN last.ret = Some(ExpectedArray(response, output_type, 1))
               ELSE
                 /\ Len(last.ret[1]) = n
                 /\ \A i \in 1..n :
                       last.ret[1][i] = ExpectedArray(response, output_type, i)

\* two outputs whose arrays differ, returned in the response's order, with the
\* second shaped by the server's shape
C8_Witness ==
    /\ TritonReturned
    /\ Len(last.world[1].response.outputs) = 2
    /\ dispatchers[last.d].model_endpoint.output_type = "uint16"
    /\ last.ret = Some(<< [shape |-> <<2>>, data |-> <<1, 1>>],
                          [shape |-> <<1, 2>>, data |-> <<256, 256>>] >>)

NoTableEntry(input_type) == DtypeType(input_type) \notin DOMAIN ContentLookup

\* the last call was a process of a Triton dispatcher whose input type has no
\* entry in the content lookup
UnsupportedProcess ==
    /\ last.op = "process"
    /\ dispatchers[last.d].cls = "TritonPreprocessRequest"
    /\ NoTableEntry(dispatchers[last.d].model_endpoint.input_type)

HasModelInfer(calls) == \E k \in DOMAIN calls : calls[k].kind = "ModelInfer"

PluginOverridesProcess(d) ==
    d._preprocess # None /\ "process" \in d._preprocess[1].attrs

====
